---- MODULE Spec2Model ----
(***************************************************************************)
(* Model of the crawl server in src/api/server.js: the WebSocket message   *)
(* handler (one crawl session per inbound message), its traversal loop,    *)
(* the section extraction, the link resolution and the events it sends.    *)
(*                                                                         *)
(* JavaScript runs a handler to completion between two awaits, so one      *)
(* action of the model is one synchronous stretch of the handler: from the *)
(* resolution (or rejection) of the await it was suspended on up to the    *)
(* next await or the handler's end.  The awaits are puppeteer.launch,      *)
(* browser.newPage, page.goto, page.content and browser.close.  Each of    *)
(* them may resolve or reject.  Each ws.send may return or throw.          *)
(*                                                                         *)
(* Strings are sequences of tokens.  A token is a run of characters that   *)
(* the model never splits; startsWith is the prefix test on sequences.     *)
(* The only prefix the code ever tests is an origin, and no token of the   *)
(* model that can follow an origin is a character prefix of another, so    *)
(* the token-level prefix test agrees with the character-level one.        *)
(***************************************************************************)
EXTENDS Naturals, Sequences, FiniteSets, TLC

(***************************************************************************)
(* Bounds of the model.                                                    *)
(***************************************************************************)
\* The page cap of the model; the source sets MAX_PAGES to 1000 (line 39).
MaxPagesBound == 2

MAX_PAGES == MaxPagesBound

\* The crawl sessions (invocations of the message handler) of the model.
Sessions == {"s1", "s2"}

\* The channels (WebSocket connections) of the model.
Channels == {"w1", "w2"}

\* The longest element list given to the extractor on its own.
MaxElements == 4

\* The number of keepalive ticks the model follows.
MaxTicks == 3

(***************************************************************************)
(* Strings and URLs.                                                       *)
(***************************************************************************)
HostA     == "https://a.example"
HostOther == "https://other.example"
Suffix    == ".evil.test"

EmptyStr == << >>

\* Tokens that open an absolute http(s) URL: scheme and host.
SpecialHosts == {HostA, HostOther}

\* Tokens that continue the host of an absolute URL.
HostSuffixes == {Suffix}

\* Tokens that are a path.
Paths == {"/", "/page2", "/x"}

\* s starts with the string p (String.prototype.startsWith).
StartsWith(s, p) ==
    /\ Len(p) <= Len(s)
    /\ SubSeq(s, 1, Len(p)) = p

\* The number of leading host tokens of the absolute http(s) URL s.
RECURSIVE HostLen(_, _)
HostLen(s, n) ==
    IF n < Len(s) /\ s[n + 1] \in HostSuffixes THEN HostLen(s, n + 1) ELSE n

\* s parses on its own as an absolute URL with a special (https) scheme.
IsSpecialAbs(s) ==
    /\ Len(s) >= 1
    /\ s[1] \in SpecialHosts
    /\ \A i \in (HostLen(s, 1) + 1)..Len(s) : s[i] \in Paths

\* s parses on its own as an absolute URL with a non-special scheme.
IsOpaqueAbs(s) == s = <<"mailto:x">>

\* s is a relative reference: it parses only against a base.
IsRelative(s) == Len(s) >= 1 /\ \A i \in 1..Len(s) : s[i] \in Paths

\* scheme and host of the absolute http(s) URL s.
HostOf(s) == SubSeq(s, 1, HostLen(s, 1))

\* path of the absolute http(s) URL s.
PathOf(s) == SubSeq(s, HostLen(s, 1) + 1, Len(s))

\* The serialisation of an absolute http(s) URL: an empty path becomes "/".
Serialize(host, path) == host \o (IF path = EmptyStr THEN <<"/">> ELSE path)

NoBase == <<"<no base>">>

\* s parses on its own as an absolute URL (what the URL parser needs of a
\* base).
ParsesAlone(s) == IsSpecialAbs(s) \/ IsOpaqueAbs(s)

Thrown == [ok |-> FALSE, href |-> EmptyStr, origin |-> EmptyStr]

\* new URL(link, base): Thrown when the constructor throws, else the URL's
\* href and origin.  base = NoBase is the one-argument form.  A base that
\* does not parse makes the constructor throw whatever the link is.
NewURL(link, base) ==
    IF base # NoBase /\ ~ParsesAlone(base)
    THEN Thrown
    ELSE IF IsSpecialAbs(link)
    THEN [ok |-> TRUE, href |-> Serialize(HostOf(link), PathOf(link)),
          origin |-> HostOf(link)]
    ELSE IF IsOpaqueAbs(link)
    THEN [ok |-> TRUE, href |-> link, origin |-> <<"null">>]
    ELSE IF IsRelative(link) /\ base # NoBase /\ IsSpecialAbs(base)
    THEN [ok |-> TRUE, href |-> HostOf(base) \o link, origin |-> HostOf(base)]
    ELSE Thrown

(***************************************************************************)
(* Rendered documents: what the Document Query Engine selects from the     *)
(* content of a page.  elements are the elements matching the tag list in  *)
(* document order, each with its lower-cased tag name and trimmed text;    *)
(* links are the href attributes of the a[href] elements, in order.        *)
(***************************************************************************)
El(tag, text) == [tag |-> tag, text |-> text]

Doc(elements, links) == [elements |-> elements, links |-> links]

\* A page that links twice to /page2; served for /page2 it links to itself.
DocCycle ==
    Doc(<<El("h1", "A"), El("p", "x"), El("h2", "B")>>,
        <<<<"/page2">>, <<"/page2">>>>)

\* A page with an absolute link to the site's root, a link to another
\* site and a link to a host that extends the site's host name.
DocAbroad ==
    Doc(<<El("p", "x"), El("span", ""), El("h3", "C"), El("li", "y")>>,
        <<<<HostA>>, <<HostOther, "/x">>, <<HostA, Suffix, "/">>>>)

\* A page with an empty href, an href the URL parser rejects, a mailto
\* link, a link to /x, an absolute link to /page2 and an absolute link to
\* the root.
DocOdd ==
    Doc(<<El("h1", "A"), El("h2", "B")>>,
        <<EmptyStr, <<"http://[">>, <<"mailto:x">>, <<"/x">>,
          <<HostA, "/page2">>, <<HostA, "/">>>>)

\* The documents page.content() may return, for any URL and at any time.
Documents == {DocCycle, DocAbroad, DocOdd}

(***************************************************************************)
(* The Extractor (lines 118-139).                                          *)
(***************************************************************************)
\* tag.startsWith('h'), over the tags of the selector.
IsHeading(tag) == tag \in {"h1", "h2", "h3", "h4", "h5", "h6"}

Section(title, content) == [title |-> title, content |-> content]

\* Mutant of Flush: the section in progress is pushed also when empty.
FlushAlways(pageData, currentSection) == Append(pageData, currentSection)

\* The flush of the in-progress section: it is pushed when it has content.
Flush(pageData, currentSection) ==
    IF Len(currentSection.content) > 0
    THEN Append(pageData, currentSection)
    ELSE pageData

\* The .each callback applied to elements[i..], then the final flush.
RECURSIVE ExtractFrom(_, _, _, _)
ExtractFrom(elements, i, pageData, currentSection) ==
    IF i > Len(elements)
    THEN Flush(pageData, currentSection)
    ELSE LET tag  == elements[i].tag
             text == elements[i].text
         IN  IF text = ""
             THEN ExtractFrom(elements, i + 1, pageData, currentSection)
             ELSE IF IsHeading(tag)
             THEN ExtractFrom(elements, i + 1,
                              Flush(pageData, currentSection),
                              Section(text, << >>))
             ELSE ExtractFrom(elements, i + 1, pageData,
                      Section(currentSection.title,
                              Append(currentSection.content, El(tag, text))))

Extract(elements) == ExtractFrom(elements, 1, << >>, Section("", << >>))

PageRecord(u, pageData) == [url |-> u, data |-> pageData]

(***************************************************************************)
(* The Link Resolver (lines 143-155).                                      *)
(***************************************************************************)
\* The guard of line 145: the raw href is non-empty and not in the ledger.
\* Mutant of LinkConsidered: the ledger is not consulted for the href.
LinkConsideredAny(link, visited) == link # EmptyStr

LinkConsidered(link, visited) == link # EmptyStr /\ link \notin visited

\* Mutant of InScope: every resolved link is accepted.
InScopeAlways(absoluteLink, base) == TRUE

\* The scope test of line 148.
InScope(absoluteLink, base) == StartsWith(absoluteLink, base)

\* What the callback of line 143 pushes for one href: a sequence of zero
\* or one URL.
PushedFor(link, visited, base) ==
    IF LinkConsidered(link, visited)
    THEN LET r == NewURL(link, base)
         IN  IF r.ok /\ InScope(r.href, base) THEN <<r.href>> ELSE << >>
    ELSE << >>

\* Everything the a[href] loop pushes for links[i..], in order.
RECURSIVE PushedFrom(_, _, _, _)
PushedFrom(links, i, visited, base) ==
    IF i > Len(links)
    THEN << >>
    ELSE PushedFor(links[i], visited, base)
             \o PushedFrom(links, i + 1, visited, base)

(***************************************************************************)
(* Inbound messages and outbound events.                                   *)
(***************************************************************************)
\* A message: json says whether JSON.parse accepts it, url is the url
\* property of the parsed value (EmptyStr when it is absent or falsy).
\* A message: whether JSON.parse accepts it, whether the value parsed is
\* null, and the url property of the value ("" when there is none).
Message(json, u) == [json |-> json, isNull |-> FALSE, url |-> u]

NotJson == Message(FALSE, EmptyStr)

\* The message null: JSON whose value has no properties to read.
JsonNull == [json |-> TRUE, isNull |-> TRUE, url |-> EmptyStr]

\* The url values of the requests of the model: no url, the root page of
\* a site and a string the URL constructor rejects.
RequestUrls == { EmptyStr, <<HostA, "/">>, <<"/page2">> }

Messages == {NotJson, JsonNull} \cup { Message(TRUE, u) : u \in RequestUrls }

Event(type, payload) == [type |-> type, payload |-> payload]

VisitingEvent(u)   == Event("visiting", u)
ScrapedEvent(data) == Event("scrapedData", data)
ErrorEvent(msg)    == Event("error", msg)

(***************************************************************************)
(* State.  session[s] is the state of one invocation of the message        *)
(* handler of line 62:                                                     *)
(*   pc           where the handler is: "idle" before its message arrives, *)
(*                "launch", "newPage", "goto", "content", "close" (line    *)
(*                161), "closeCatch" (line 177) while it awaits that call, *)
(*                "done" when it has returned or thrown                    *)
(*   message      the message the handler was called with                   *)
(*   url, browser, baseUrl, urlQueue, visitedUrls, scrapedData,            *)
(*   currentUrl   the handler's variables of the same names; browser is    *)
(*                "none" (undefined), "open" or "closed"                   *)
(*   events       the events ws.send accepted from this session, in order  *)
(*   failed       the events for which ws.send threw, in order             *)
(*   popped       every urlQueue.shift(), in order: the URL returned and   *)
(*                whether it was in visitedUrls at that moment             *)
(*   pushed       every URL put on urlQueue, in order, the seed first      *)
(*   gotos        every URL passed to page.goto, in order                  *)
(*   navFailed    every URL whose page.goto rejected, in order             *)
(*   exit         how the loop ended: "none" while it has not, "ended"     *)
(*                when its condition failed, "break" for line 105,         *)
(*                "thrown" when the catch block was entered                *)
(*   uncaught     an exception left the handler (an unhandled rejection)   *)
(*                                                                         *)
(* ws[w] is one connection of the server (the ws of line 46):              *)
(*   status       "none" before the connection is made, then "open", and   *)
(*                "terminated" after ws.terminate()                        *)
(*   isAlive      the flag of the same name                                *)
(*   sent         what ws.send accepted on this connection, in order, each *)
(*                with the handler run it came from ("server" for the      *)
(*                connection handler)                                      *)
(*   runs         the handler runs started by messages of this connection  *)
(*   pinged       a ping was sent at the latest tick                       *)
(*   answered     a pong arrived since the latest tick                     *)
(*   endedBy      what terminated it: "none", "dead" (line 187) or         *)
(*                "pingThrew" (line 195)                                   *)
(* wss is the server: ticks counts the runs of the interval callback and   *)
(* interval tells whether the interval of line 183 is still set.           *)
(*                                                                         *)
(* extraction is one run of the section extraction on its own: the         *)
(* elements the selector of line 121 matched, in document order, the       *)
(* pageData of the latest run, the number of runs, and whether all runs    *)
(* gave the same pageData.                                                 *)
(***************************************************************************)
VARIABLES session, ws, wss, extraction

vars == <<session, ws, wss, extraction>>

NewSession ==
    [pc |-> "idle", message |-> NotJson, url |-> EmptyStr, browser |-> "none", baseUrl |-> EmptyStr,
     urlQueue |-> << >>, visitedUrls |-> {}, scrapedData |-> << >>,
     currentUrl |-> EmptyStr, events |-> << >>, failed |-> << >>,
     popped |-> << >>, pushed |-> << >>, gotos |-> << >>, navFailed |-> << >>,
     exit |-> "none", uncaught |-> FALSE]

\* A connection that has not been made yet.
NewSocket ==
    [status |-> "none", isAlive |-> FALSE, sent |-> << >>, runs |-> {},
     pinged |-> FALSE, answered |-> FALSE, endedBy |-> "none"]

\* What a handler run put on a connection.
Sent(from, ev) == [from |-> from, event |-> ev]

ConnectedEvent == Event("status", "connected")

\* Lines 46-57, the connection handler: the flag is set, the pong
\* listener is registered and the guarded welcome send is made.
OnConnection(sock, sendOk) ==
    [sock EXCEPT !.status = "open", !.isAlive = TRUE,
                 !.sent = IF sendOk
                          THEN Append(@, Sent("server", ConnectedEvent))
                          ELSE @]

NewServer == [ticks |-> 0, interval |-> TRUE]

NoExtraction ==
    [elements |-> << >>, pageData |-> << >>, runs |-> 0, same |-> TRUE]

\* The connections once every client has connected: each welcome send
\* returned or threw.
Connected ==
    [Channels -> { OnConnection(NewSocket, sendOk) : sendOk \in BOOLEAN }]

Init ==
    /\ session = [s \in Sessions |-> NewSession]
    /\ ws \in Connected
    /\ wss = NewServer
    /\ extraction = NoExtraction

(***************************************************************************)
(* The synchronous stretches of the handler, as operators on one session.  *)
(***************************************************************************)
\* ws.send(JSON.stringify(ev)): the event is on the channel when ok, and
\* the call throws otherwise.
Emit(st, ev, ok) ==
    IF ok
    THEN [st EXCEPT !.events = Append(@, ev)]
    ELSE [st EXCEPT !.failed = Append(@, ev)]

\* if (browser) of line 176.
CatchCloses(b) == b # "none"

\* The catch block of lines 169-179: the guarded error send, then the
\* call of browser.close() when a browser was launched.
Catch(st, sendOk) ==
    LET st1 == Emit(st, ErrorEvent("An unexpected error occurred."), sendOk)
    IN  IF CatchCloses(st1.browser)
        THEN [st1 EXCEPT !.pc = "closeCatch", !.exit = "thrown"]
        ELSE [st1 EXCEPT !.pc = "done", !.exit = "thrown"]

\* Mutant of LoopContinues: the page cap is not tested.
LoopContinuesNoCap(q, visited) == Len(q) > 0

\* The loop condition of line 94.
LoopContinues(q, visited) == Len(q) > 0 /\ Cardinality(visited) < MAX_PAGES

\* Mutant of AlreadyVisited: the ledger is not consulted at the pop.
AlreadyVisitedNever(u, visited) == FALSE

\* The test of line 96.
AlreadyVisited(u, visited) == u \in visited

\* The number of iterations that pop an entry and skip it (lines 94-98)
\* before the loop ends or reaches an entry it visits.
RECURSIVE SkipLen(_, _)
SkipLen(q, visited) ==
    IF LoopContinues(q, visited) /\ AlreadyVisited(Head(q), visited)
    THEN 1 + SkipLen(Tail(q), visited)
    ELSE 0

\* Mutant of AfterVisitingSend: the break of line 105 is missing.
AfterVisitingSendGoOn(sendOk) == "goto"

\* Lines 101-106: where the loop goes after the visiting send: on to
\* page.goto, or out of the loop (break) when the send threw.
AfterVisitingSend(sendOk) == IF sendOk THEN "goto" ELSE "close"

Pop(u, visited) == [url |-> u, seen |-> u \in visited]

\* The pops of the first n entries of q.
Pops(q, n, visited) == [i \in 1..n |-> Pop(q[i], visited)]

\* The loop from its head (line 94) to the next await: the skipped pops,
\* then either the pop of the URL to visit, the visiting send and the call
\* of page.goto, or the loop's end and the call of browser.close (line 161).
Loop(st, sendOk) ==
    LET q   == st.urlQueue
        n   == SkipLen(q, st.visitedUrls)
        q1  == SubSeq(q, n + 1, Len(q))
        st1 == [st EXCEPT !.urlQueue = q1, !.popped = @ \o Pops(q, n, st.visitedUrls)]
    IN  IF LoopContinues(q1, st.visitedUrls)
        THEN LET cur == Head(q1)
                 st2 == [st1 EXCEPT !.urlQueue = Tail(q1),
                                    !.popped = Append(@, Pop(cur, st.visitedUrls)),
                                    !.currentUrl = cur]
                 st3 == Emit(st2, VisitingEvent(cur), sendOk)
             IN  IF AfterVisitingSend(sendOk) = "goto"
                 THEN [st3 EXCEPT !.pc = "goto", !.gotos = Append(@, cur)]
                 ELSE [st3 EXCEPT !.pc = "close", !.exit = "break"]
        ELSE [st1 EXCEPT !.pc = "close", !.exit = "ended"]

\* Lines 63-85: the parse, the destructuring of line 72, the url check and
\* the call of puppeteer.launch.  The two error sends are not guarded:
\* when they throw, the exception leaves the handler.  So does the
\* TypeError of line 72 when the value parsed is null.
OnMessage(st, m, sendOk) ==
    IF ~m.json
    THEN [Emit(st, ErrorEvent("Invalid message format"), sendOk)
            EXCEPT !.message = m, !.pc = "done", !.uncaught = ~sendOk]
    ELSE IF m.isNull
    THEN [st EXCEPT !.message = m, !.pc = "done", !.uncaught = TRUE]
    ELSE IF m.url = EmptyStr
    THEN [Emit(st, ErrorEvent("URL is required"), sendOk)
            EXCEPT !.message = m, !.pc = "done", !.uncaught = ~sendOk]
    ELSE [st EXCEPT !.message = m, !.pc = "launch", !.url = m.url]

\* Lines 83-86: launch resolved, browser is assigned, newPage is called.
OnLaunched(st) == [st EXCEPT !.browser = "open", !.pc = "newPage"]

\* Lines 87-94: newPage resolved; the collections are created, the origin
\* of the seed is taken (new URL throws on a seed it cannot parse) and the
\* loop starts.
OnPage(st, sendOk) ==
    LET r   == NewURL(st.url, NoBase)
        st1 == [st EXCEPT !.visitedUrls = {}, !.urlQueue = <<st.url>>,
                          !.scrapedData = << >>, !.pushed = <<st.url>>]
    IN  IF r.ok
        THEN Loop([st1 EXCEPT !.baseUrl = r.origin], sendOk)
        ELSE Catch(st1, sendOk)

\* Mutant of OnGotoFailed: the URL that failed enters the ledger.
OnGotoFailedLedger(st) ==
    [st EXCEPT !.navFailed = Append(@, st.currentUrl),
               !.visitedUrls = @ \cup {st.currentUrl}]

\* Mutant of OnGotoFailed: the browser is closed when a navigation fails,
\* and the loop goes on.
OnGotoFailedCloses(st) ==
    [st EXCEPT !.navFailed = Append(@, st.currentUrl), !.browser = "closed"]

\* Lines 110-113: page.goto rejected; the URL is skipped.
OnGotoFailed(st) == [st EXCEPT !.navFailed = Append(@, st.currentUrl)]

\* Lines 115-157: page.content resolved with doc; the sections are
\* extracted and recorded, the links are pushed, the URL enters the ledger.
OnContent(st, doc) ==
    LET new == PushedFrom(doc.links, 1, st.visitedUrls, st.baseUrl)
    IN  [st EXCEPT
           !.scrapedData = Append(@, PageRecord(st.currentUrl,
                                                Extract(doc.elements))),
           !.urlQueue = @ \o new,
           !.pushed = @ \o new,
           !.visitedUrls = @ \cup {st.currentUrl}]

\* Mutant of OnClosed: the final send is missing.
\* Mutant of OnClosed: the final send is not guarded, so that its
\* failure reaches the catch block.
OnClosedUnguarded(st, sendOk) ==
    IF sendOk
    THEN [Emit(st, ScrapedEvent(st.scrapedData), TRUE)
             EXCEPT !.browser = "closed", !.pc = "done"]
    ELSE Catch([Emit(st, ScrapedEvent(st.scrapedData), FALSE)
                   EXCEPT !.browser = "closed"], sendOk)

OnClosedSilent(st, sendOk) == [st EXCEPT !.browser = "closed", !.pc = "done"]

\* Lines 161-167: browser.close resolved; the guarded final send.
OnClosed(st, sendOk) ==
    [Emit(st, ScrapedEvent(st.scrapedData), sendOk)
        EXCEPT !.browser = "closed", !.pc = "done"]

\* Lines 177-179: browser.close of the catch block resolved.
OnCatchClosed(st) == [st EXCEPT !.browser = "closed", !.pc = "done"]

\* Line 177: browser.close of the catch block rejected; nothing catches
\* the rejection, which leaves the handler.
OnCatchCloseFailed(st) == [st EXCEPT !.pc = "done", !.uncaught = TRUE]

(***************************************************************************)
(* Actions: one per arrival of a message and per outcome of an await.      *)
(***************************************************************************)
\* Mutant of Update: the ledger is one collection for all handler runs.
UpdateShared(s, st) ==
    [t \in Sessions |->
        IF t = s THEN st
        ELSE [session[t] EXCEPT !.visitedUrls = st.visitedUrls]]

\* Every variable of a handler run is declared in the handler (lines
\* 62-92): a step of run s assigns to the variables of s only.
Update(s, st) == [session EXCEPT ![s] = st]

Step(s, st) ==
    /\ session' = Update(s, st)
    /\ UNCHANGED <<ws, wss, extraction>>

\* A message arrives and its handler runs to its first await or its end.
ReceiveOf(s, msgs) ==
    /\ session[s].pc = "idle"
    /\ \E m \in msgs, sendOk \in BOOLEAN :
          Step(s, OnMessage(session[s], m, sendOk))

Receive(s) == ReceiveOf(s, Messages)

LaunchResolves(s) ==
    /\ session[s].pc = "launch"
    /\ Step(s, OnLaunched(session[s]))

LaunchRejects(s) ==
    /\ session[s].pc = "launch"
    /\ \E sendOk \in BOOLEAN : Step(s, Catch(session[s], sendOk))

NewPageResolves(s) ==
    /\ session[s].pc = "newPage"
    /\ \E sendOk \in BOOLEAN : Step(s, OnPage(session[s], sendOk))

NewPageRejects(s) ==
    /\ session[s].pc = "newPage"
    /\ \E sendOk \in BOOLEAN : Step(s, Catch(session[s], sendOk))

GotoResolves(s) ==
    /\ session[s].pc = "goto"
    /\ Step(s, [session[s] EXCEPT !.pc = "content"])

GotoRejects(s) ==
    /\ session[s].pc = "goto"
    /\ \E sendOk \in BOOLEAN :
          Step(s, Loop(OnGotoFailed(session[s]), sendOk))

ContentResolvesOf(s, docs) ==
    /\ session[s].pc = "content"
    /\ \E doc \in docs, sendOk \in BOOLEAN :
          Step(s, Loop(OnContent(session[s], doc), sendOk))

ContentResolves(s) == ContentResolvesOf(s, Documents)

ContentRejects(s) ==
    /\ session[s].pc = "content"
    /\ \E sendOk \in BOOLEAN : Step(s, Catch(session[s], sendOk))

CloseResolves(s) ==
    /\ session[s].pc = "close"
    /\ \E sendOk \in BOOLEAN : Step(s, OnClosed(session[s], sendOk))

\* browser.close of line 161 rejected: the catch block runs, and calls
\* browser.close again.
CloseRejects(s) ==
    /\ session[s].pc = "close"
    /\ \E sendOk \in BOOLEAN : Step(s, Catch(session[s], sendOk))

CatchCloseResolves(s) ==
    /\ session[s].pc = "closeCatch"
    /\ Step(s, OnCatchClosed(session[s]))

CatchCloseRejects(s) ==
    /\ session[s].pc = "closeCatch"
    /\ Step(s, OnCatchCloseFailed(session[s]))

SessionStep(s) ==
    \/ Receive(s)
    \/ LaunchResolves(s)
    \/ LaunchRejects(s)
    \/ NewPageResolves(s)
    \/ NewPageRejects(s)
    \/ GotoResolves(s)
    \/ GotoRejects(s)
    \/ ContentResolves(s)
    \/ ContentRejects(s)
    \/ CloseResolves(s)
    \/ CloseRejects(s)
    \/ CatchCloseResolves(s)
    \/ CatchCloseRejects(s)

Next == \E s \in Sessions : SessionStep(s)

Spec == Init /\ [][Next]_vars

(***************************************************************************)
(* The specification for the properties of progress.  It assumes that no   *)
(* await hangs: the call a handler run is suspended on resolves or         *)
(* rejects.  It follows one handler run, with the messages, documents and  *)
(* outcomes of Spec: a run reads and writes its own collections only.      *)
(***************************************************************************)
SingleRun == {"s1"}

AwaitReturns(s) ==
    \/ LaunchResolves(s)
    \/ LaunchRejects(s)
    \/ NewPageResolves(s)
    \/ NewPageRejects(s)
    \/ GotoResolves(s)
    \/ GotoRejects(s)
    \/ ContentResolves(s)
    \/ ContentRejects(s)
    \/ CloseResolves(s)
    \/ CloseRejects(s)
    \/ CatchCloseResolves(s)
    \/ CatchCloseRejects(s)

FairNext == \E s \in SingleRun : Receive(s) \/ AwaitReturns(s)

FairSpec ==
    /\ Init
    /\ [][FairNext]_vars
    /\ \A s \in SingleRun : WF_vars(AwaitReturns(s))

(***************************************************************************)
(* The sessions together with their connections.  Spec and FairSpec        *)
(* follow the handler runs and leave the records of the connections as     *)
(* they are; here every step of a run also puts the events its sends       *)
(* delivered on the connection the run's message came from, so that the    *)
(* runs of one connection share its record.  A message arrives on an open  *)
(* connection only; a run that has started goes on whatever becomes of its *)
(* connection.  Every message of Spec may arrive, every await resolves or  *)
(* rejects and every ws.send returns or throws, as in Spec.  Next to the   *)
(* keepalive a run is served the documents of Spec; two runs together are  *)
(* served one of them.                                                     *)
(***************************************************************************)
ChannelDocuments == {DocAbroad}

\* What a sequence gained in one step.
Added(old, new) == SubSeq(new, Len(old) + 1, Len(new))

\* The states one step of a handler run can lead to from st, for the
\* messages msgs, the documents docs and the outcomes oks of ws.send
\* (TRUE: it returns, FALSE: it throws): when its message arrives, when
\* the call it awaits resolves, and when that call rejects.
Arrived(st, msgs, oks) ==
    IF st.pc = "idle"
    THEN { OnMessage(st, m, ok) : m \in msgs, ok \in oks }
    ELSE {}

Resolved(st, docs, oks) ==
    IF st.pc = "launch" THEN {OnLaunched(st)}
    ELSE IF st.pc = "newPage" THEN { OnPage(st, ok) : ok \in oks }
    ELSE IF st.pc = "goto" THEN {[st EXCEPT !.pc = "content"]}
    ELSE IF st.pc = "content"
    THEN { Loop(OnContent(st, doc), ok) : doc \in docs, ok \in oks }
    ELSE IF st.pc = "close" THEN { OnClosed(st, ok) : ok \in oks }
    ELSE IF st.pc = "closeCatch" THEN {OnCatchClosed(st)}
    ELSE {}

Rejected(st, oks) ==
    IF st.pc \in {"launch", "newPage", "content", "close"}
    THEN { Catch(st, ok) : ok \in oks }
    ELSE IF st.pc = "goto"
    THEN { Loop(OnGotoFailed(st), ok) : ok \in oks }
    ELSE IF st.pc = "closeCatch" THEN {OnCatchCloseFailed(st)}
    ELSE {}

NextStates(st, msgs, docs, oks) ==
    Arrived(st, msgs, oks) \cup Resolved(st, docs, oks) \cup Rejected(st, oks)

\* The events evs as sent by run s.
SentBy(s, evs) == [i \in 1..Len(evs) |-> Sent(s, evs[i])]

\* A step of run s, whose message arrived or arrives on connection w,
\* with the documents docs.
ChannelStepOf(s, w, docs) ==
    /\ IF session[s].pc = "idle"
       THEN ws[w].status = "open" /\ \A v \in Channels : s \notin ws[v].runs
       ELSE s \in ws[w].runs
    /\ \E st \in NextStates(session[s], Messages, docs, BOOLEAN) :
          /\ session' = Update(s, st)
          /\ ws' = [ws EXCEPT
                       ![w].runs = @ \cup {s},
                       ![w].sent =
                           @ \o SentBy(s, Added(session[s].events,
                                                st.events))]
    /\ UNCHANGED <<wss, extraction>>

ChannelStep(s, w) == ChannelStepOf(s, w, ChannelDocuments)

(***************************************************************************)
(* The specification of the section extraction on its own: lines 118-139   *)
(* applied, once and once again, to a list of the elements the selector    *)
(* matched, each with its tag and its trimmed text (which may be empty).   *)
(***************************************************************************)
ElementChoices ==
    {El("h1", "A"), El("h2", "B"), El("p", "x"), El("li", "y"),
     El("span", "")}

ElementLists == UNION { [1..n -> ElementChoices] : n \in 0..MaxElements }

ExtractInit ==
    /\ session = [s \in Sessions |-> NewSession]
    /\ ws \in Connected
    /\ wss = NewServer
    /\ extraction \in { [NoExtraction EXCEPT !.elements = e] :
                            e \in ElementLists }

\* Lines 118-139 run on the elements.
ExtractRuns ==
    /\ extraction.runs < 2
    /\ extraction' =
          [extraction EXCEPT
              !.pageData = Extract(extraction.elements),
              !.runs = @ + 1,
              !.same = @ /\ (extraction.runs = 0
                               \/ extraction.pageData
                                     = Extract(extraction.elements))]
    /\ UNCHANGED <<session, ws, wss>>

ExtractSpec == ExtractInit /\ [][ExtractRuns]_vars

(***************************************************************************)
(* The specification of the keepalive: the connection handler, the pong    *)
(* listener, the interval callback of lines 183-198 and the close of the   *)
(* server, next to one handler run on one of the connections.  A client    *)
(* may send a pong at any time; ws.ping may throw.                         *)
(***************************************************************************)
\* Mutant of Heartbeat: the pong listener leaves the flag as it is.
HeartbeatIdle(sock) == sock

\* heartbeat of lines 42-44, the pong listener.
Heartbeat(sock) == [sock EXCEPT !.isAlive = TRUE]

\* The callback of lines 185-196 for one client of the server.
TickSocket(sock, pingOk) ==
    IF sock.status # "open"
    THEN sock
    ELSE IF sock.isAlive = FALSE
    THEN [sock EXCEPT !.status = "terminated", !.endedBy = "dead"]
    ELSE IF pingOk
    THEN [sock EXCEPT !.isAlive = FALSE, !.pinged = TRUE,
                      !.answered = FALSE]
    ELSE [sock EXCEPT !.isAlive = FALSE, !.pinged = FALSE,
                      !.answered = FALSE, !.status = "terminated",
                      !.endedBy = "pingThrew"]

KeepaliveInit ==
    /\ session = [s \in Sessions |-> NewSession]
    /\ ws = [w \in Channels |-> NewSocket]
    /\ wss = NewServer
    /\ extraction = NoExtraction

\* A client connects: the connection handler runs.
Connect(w) ==
    /\ ws[w].status = "none"
    /\ \E sendOk \in BOOLEAN :
          ws' = [ws EXCEPT ![w] = OnConnection(ws[w], sendOk)]
    /\ UNCHANGED <<session, wss, extraction>>

\* A pong of the client arrives: the pong listener runs.
Pong(w) ==
    /\ ws[w].status = "open"
    /\ ws' = [ws EXCEPT ![w] = [Heartbeat(ws[w]) EXCEPT !.answered = TRUE]]
    /\ UNCHANGED <<session, wss, extraction>>

\* The interval fires: the callback runs for every client.
Tick ==
    /\ wss.interval
    /\ wss.ticks < MaxTicks
    /\ \E pingOk \in [Channels -> BOOLEAN] :
          ws' = [w \in Channels |-> TickSocket(ws[w], pingOk[w])]
    /\ wss' = [wss EXCEPT !.ticks = @ + 1]
    /\ UNCHANGED <<session, extraction>>

\* Lines 200-202: the server closes and clears the interval.
ServerCloses ==
    /\ wss.interval
    /\ wss' = [wss EXCEPT !.interval = FALSE]
    /\ UNCHANGED <<session, ws, extraction>>

KeepaliveNext ==
    \/ \E w \in Channels : Connect(w) \/ Pong(w)
    \/ Tick
    \/ ServerCloses
    \/ \E s \in SingleRun, w \in Channels : ChannelStepOf(s, w, Documents)

KeepaliveSpec == KeepaliveInit /\ [][KeepaliveNext]_vars

(***************************************************************************)
(* The specification of the sessions with their connections: clients       *)
(* connect and messages start handler runs, two of them at a time, on one  *)
(* connection or on two.  (KeepaliveSpec follows the keepalive next to a   *)
(* run.)                                                                   *)
(***************************************************************************)
ChannelNext ==
    \/ \E s \in Sessions, w \in Channels : ChannelStep(s, w)
    \/ \E w \in Channels : Connect(w)

ChannelSpec == KeepaliveInit /\ [][ChannelNext]_vars

(***************************************************************************)
(* Helpers of the properties.                                              *)
(***************************************************************************)
\* The elements of the sequence q, as a set.
Range(q) == { q[i] : i \in 1..Len(q) }

\* The events of type t among evs, in order.
OfType(evs, t) == SelectSeq(evs, LAMBDA e : e.type = t)

\* The largest number of links on one document.
RECURSIVE MaxLinksOf(_)
MaxLinksOf(docs) ==
    IF docs = {}
    THEN 0
    ELSE LET d == CHOOSE x \in docs : TRUE
             m == MaxLinksOf(docs \ {d})
         IN  IF Len(d.links) > m THEN Len(d.links) ELSE m

MaxLinks == MaxLinksOf(Documents)

\* The payloads of the events evs, in order.
Payloads(evs) == [i \in 1..Len(evs) |-> evs[i].payload]

\* The url fields of the records of q (pops or PageRecords), in order.
Urls(q) == [i \in 1..Len(q) |-> q[i].url]

\* The URLs of the visiting events among evs, in order.
Visiting(evs) == Payloads(OfType(evs, "visiting"))

\* The URLs popped while they were not in the ledger, in order.
Unseen(pops) == Urls(SelectSeq(pops, LAMBDA p : ~p.seen))

\* a is a subsequence of b: b with some elements left out.
RECURSIVE IsSubseq(_, _)
IsSubseq(a, b) ==
    IF a = << >> THEN TRUE
    ELSE IF b = << >> THEN FALSE
    ELSE IF Head(a) = Head(b) THEN IsSubseq(Tail(a), Tail(b))
    ELSE IsSubseq(a, Tail(b))

\* The message is not a request: it is no JSON or carries no url.
Malformed(m) == ~m.json \/ m.url = EmptyStr

\* The session entered its catch block.
Threw(st) == st.exit = "thrown"

(***************************************************************************)
(* C1. Bound property: in every reachable state the Visited Ledger of      *)
(* every session holds at most MAX_PAGES URLs, and no visit is under way   *)
(* (visiting sent, page.goto or page.content pending) with a ledger that   *)
(* already holds MAX_PAGES URLs.                                           *)
(***************************************************************************)
C1_PageCap ==
    \A s \in Sessions :
        /\ Cardinality(session[s].visitedUrls) <= MAX_PAGES
        /\ session[s].pc \in {"goto", "content"}
              => Cardinality(session[s].visitedUrls) < MAX_PAGES

\* A session stopped by the cap: the ledger is full and work is left.
C1_Witness ==
    \E s \in Sessions :
        /\ session[s].pc = "close"
        /\ session[s].exit = "ended"
        /\ Cardinality(session[s].visitedUrls) = MAX_PAGES
        /\ Len(session[s].urlQueue) > 0

(***************************************************************************)
(* C2. Renderer release: no session that has ended leaves its browser      *)
(* open, whatever way the session ends and whatever the other sessions do. *)
(***************************************************************************)
C2_RendererReleased ==
    \A s \in Sessions :
        session[s].pc = "done" => session[s].browser # "open"

(***************************************************************************)
(* C3. Termination: the loop body runs a bounded number of times (every    *)
(* pop consumes a push, and the pushes are at most the seed plus the links *)
(* of at most MAX_PAGES recorded pages), and, provided every await         *)
(* returns, every session that received a message reaches its end.         *)
(***************************************************************************)
C3_Termination ==
    /\ [](\A s \in Sessions :
             /\ Len(session[s].popped) <= Len(session[s].pushed)
             /\ Len(session[s].scrapedData) <= MAX_PAGES
             /\ Len(session[s].pushed)
                   <= 1 + Len(session[s].scrapedData) * MaxLinks)
    /\ \A s \in Sessions :
          (session[s].pc # "idle") ~> (session[s].pc = "done")

\* A session that ended after a navigation failure and after meeting, in
\* a cyclic link graph, a URL it had already visited.
C3_Witness ==
    \E s \in Sessions :
        /\ session[s].pc = "done"
        /\ session[s].exit = "ended"
        /\ Len(session[s].navFailed) > 0
        /\ \E i \in 1..Len(session[s].popped) : session[s].popped[i].seen

(***************************************************************************)
(* C4. No duplicate visits: no URL is passed to page.goto more than once   *)
(* in one session.  The code violates it: a URL whose navigation failed    *)
(* stays out of the ledger, and a second copy of it in the Frontier is     *)
(* navigated to again.                                                     *)
(***************************************************************************)
C4_NoDuplicateGoto ==
    \A s \in Sessions :
        \A i, j \in 1..Len(session[s].gotos) :
            i # j => session[s].gotos[i] # session[s].gotos[j]

(***************************************************************************)
(* C5. Order property.  The Frontier is FIFO: the URLs popped are, in      *)
(* order, the first URLs pushed, the seed first.  As claimed, the visiting *)
(* events of a session are the URLs popped while not in the ledger, in     *)
(* order.                                                                  *)
(***************************************************************************)
C5_Fifo(st) ==
    /\ Len(st.popped) <= Len(st.pushed)
    /\ Urls(st.popped) = SubSeq(st.pushed, 1, Len(st.popped))
    /\ st.urlQueue = SubSeq(st.pushed, Len(st.popped) + 1, Len(st.pushed))
    /\ Len(st.pushed) > 0 => st.pushed[1] = st.url

C5_Original ==
    \A s \in Sessions :
        /\ C5_Fifo(session[s])
        /\ Visiting(session[s].events) = Unseen(session[s].popped)

\* C5 as amended: the visiting events are the URLs popped while not in the
\* ledger, in order, except that the last of these pops has no event when
\* its visiting send threw, which ends the loop.
C5_Order ==
    \A s \in Sessions :
        /\ C5_Fifo(session[s])
        /\ Len(Visiting(session[s].failed)) <= 1
        /\ Visiting(session[s].events) \o Visiting(session[s].failed)
              = Unseen(session[s].popped)
        /\ Visiting(session[s].events) = session[s].gotos

\* A session that skipped a URL already in the ledger, sent visiting
\* events and then failed to send one.
C5_Witness ==
    \E s \in Sessions :
        /\ \E i \in 1..Len(session[s].popped) : session[s].popped[i].seen
        /\ Len(Visiting(session[s].events)) >= 1
        /\ Len(Visiting(session[s].failed)) = 1

(***************************************************************************)
(* C6. Final result event.  As claimed: a session whose loop ended on its  *)
(* condition has, once it is over, exactly one scrapedData event, with the *)
(* whole result list, and a scrapedData event is the last event of its     *)
(* session.                                                                *)
(***************************************************************************)
C6_Last(st) ==
    LET sd == OfType(st.events, "scrapedData")
    IN  /\ Len(sd) <= 1
        /\ Len(sd) = 1 =>
              /\ st.pc = "done"
              /\ st.events[Len(st.events)].type = "scrapedData"
              /\ st.events[Len(st.events)].payload = st.scrapedData
        /\ IsSubseq(Urls(st.scrapedData), st.gotos)

C6_Original ==
    \A s \in Sessions :
        /\ C6_Last(session[s])
        /\ (session[s].pc = "done" /\ session[s].exit = "ended")
              => Len(OfType(session[s].events, "scrapedData")) = 1

\* C6 as amended: such a session, when the browser.close of line 161
\* resolves, sends the scrapedData event exactly once; the event is on the
\* channel exactly when that send does not throw, and a failure of the
\* send is swallowed.  When that browser.close rejects the session makes
\* no scrapedData send (it sends the error event of the catch block).
\* The rest is as claimed.
C6_FinalResult ==
    /\ [](\A s \in Sessions :
             /\ C6_Last(session[s])
             /\ (session[s].pc = "done" /\ session[s].exit = "ended")
                   => /\ Len(OfType(session[s].events, "scrapedData"))
                            + Len(OfType(session[s].failed, "scrapedData"))
                            = 1
                      /\ ~session[s].uncaught
             /\ Len(OfType(session[s].failed, "scrapedData")) <= 1
             /\ Threw(session[s]) =>
                   OfType(session[s].events \o session[s].failed,
                          "scrapedData") = << >>)
    /\ [][\A s \in Sessions :
             (session[s].pc = "close" /\ session'[s].pc # "close") =>
                 \/ /\ session'[s].pc = "done"
                    /\ session'[s].exit = session[s].exit
                    /\ Len(OfType(session'[s].events \o session'[s].failed,
                                  "scrapedData")) = 1
                 \/ /\ session'[s].pc = "closeCatch"
                    /\ Threw(session'[s])
                    /\ Len(OfType(session'[s].events \o session'[s].failed,
                                  "error")) = 1]_vars

\* A finished session whose scrapedData event, the last of its stream,
\* carries two PageRecords.
C6_Witness ==
    \E s \in Sessions :
        /\ session[s].pc = "done"
        /\ session[s].exit = "ended"
        /\ Len(OfType(session[s].events, "scrapedData")) = 1
        /\ Len(session[s].scrapedData) = 2
        /\ Len(session[s].navFailed) > 0

(***************************************************************************)
(* C7. Malformed request: a message that is no JSON, or is JSON without a  *)
(* url, yields exactly one error event and no crawl session: no browser is *)
(* launched, nothing is queued or visited.  Stated for the messages whose  *)
(* handling made no send that threw.                                       *)
(***************************************************************************)
C7_NoSession(st) ==
    /\ st.pc = "done"
    /\ st.browser = "none"
    /\ st.pushed = << >>
    /\ st.gotos = << >>
    /\ OfType(st.events \o st.failed, "visiting") = << >>

C7_Handled(s) ==
    /\ session[s].pc # "idle"
    /\ Malformed(session[s].message)
    /\ session[s].failed = << >>

C7_Malformed ==
    \A s \in Sessions :
        C7_Handled(s) =>
            /\ C7_NoSession(session[s])
            /\ Len(session[s].events) = 1
            /\ session[s].events[1].type = "error"

(***************************************************************************)
(* C8. Failure continuation.  The step in which page.goto rejects for the  *)
(* popped URL u adds nothing to the ledger, to the results or to the       *)
(* Frontier, sends no error event, and goes on with the next Frontier      *)
(* entry that is not in the ledger, or ends the loop when there is none.   *)
(* Example: a seed that links to U2 and U3, where U2 fails and U3          *)
(* succeeds, ends with the records of the seed and U3, U2 not in the       *)
(* ledger.                                                                 *)
(***************************************************************************)
C8_U2 == <<HostA, "/x">>

C8_U3 == <<HostA, "/page2">>

C8_Example(st) ==
    /\ st.pc = "done"
    /\ st.exit = "ended"
    /\ st.url = <<HostA, "/">>
    /\ st.gotos = <<st.url, C8_U2, C8_U3>>
    /\ st.navFailed = <<C8_U2>>

C8_FailedStep(st, st2) ==
    /\ st2.visitedUrls = st.visitedUrls
    /\ st.currentUrl \notin st2.visitedUrls
    /\ st2.scrapedData = st.scrapedData
    /\ st2.pushed = st.pushed
    /\ OfType(st2.events \o st2.failed, "error")
          = OfType(st.events \o st.failed, "error")
    /\ st2.navFailed = Append(st.navFailed, st.currentUrl)
    /\ st2.pc \in {"goto", "close"}
    /\ st2.pc = "goto" =>
          \E k \in 1..Len(st.urlQueue) :
              /\ \A j \in 1..(k - 1) : st.urlQueue[j] \in st.visitedUrls
              /\ st.urlQueue[k] \notin st.visitedUrls
              /\ st2.currentUrl = st.urlQueue[k]
              /\ st2.gotos = Append(st.gotos, st.urlQueue[k])
              /\ st2.urlQueue = SubSeq(st.urlQueue, k + 1, Len(st.urlQueue))
    /\ st2.pc = "close" => st2.gotos = st.gotos /\ st2.exit \in {"ended", "break"}

C8_FailureContinuation ==
    /\ [][\A s \in Sessions :
             session'[s].navFailed # session[s].navFailed
                 => C8_FailedStep(session[s], session'[s])]_vars
    /\ [](\A s \in Sessions :
             C8_Example(session[s]) =>
                 /\ Urls(session[s].scrapedData) = <<session[s].url, C8_U3>>
                 /\ C8_U2 \notin session[s].visitedUrls)

\* The session of the example, at its end.
C8_Witness == \E s \in Sessions : C8_Example(session[s])

(***************************************************************************)
(* C9. Scope containment: every URL the Link Resolver pushes parses as an  *)
(* absolute URL and starts with the scope anchor, so every Frontier entry  *)
(* but the seed does.  Under the anchor https://a.example the link         *)
(* https://a.example/page2 is pushed, while https://other.example/x and a  *)
(* link that does not resolve are not.                                     *)
(***************************************************************************)
C9_Scope ==
    /\ PushedFor(<<HostA, "/page2">>, {}, <<HostA>>) = <<<<HostA, "/page2">>>>
    /\ PushedFor(<<"/page2">>, {}, <<HostA>>) = <<<<HostA, "/page2">>>>
    /\ PushedFor(<<HostOther, "/x">>, {}, <<HostA>>) = << >>
    /\ PushedFor(<<"http://[">>, {}, <<HostA>>) = << >>
    /\ \A s \in Sessions :
          /\ \A i \in 2..Len(session[s].pushed) :
                /\ StartsWith(session[s].pushed[i], session[s].baseUrl)
                /\ IsSpecialAbs(session[s].pushed[i])
                /\ session[s].baseUrl = NewURL(session[s].url, NoBase).origin
          /\ Len(session[s].popped) > 0 =>
                \A i \in 1..Len(session[s].urlQueue) :
                    StartsWith(session[s].urlQueue[i], session[s].baseUrl)

\* A session that recorded the page with a link to its own site, a link
\* to another site and a link to a host whose name extends the anchor: it
\* pushed the first and the last, which starts with the anchor, and not
\* the second.
C9_Witness ==
    \E s \in Sessions :
        /\ \E i \in 1..Len(session[s].scrapedData) :
              session[s].scrapedData[i].data = Extract(DocAbroad.elements)
        /\ <<HostA, "/">> \in Range(session[s].pushed)
        /\ <<HostA, Suffix, "/">> \in Range(session[s].pushed)
        /\ <<HostOther, "/x">> \notin Range(session[s].pushed)
        /\ Len(session[s].urlQueue) > 0

(***************************************************************************)
(* C10. Channel-failure abort: when the visiting send for a popped URL     *)
(* throws, the session does not navigate to that URL, and from then on it  *)
(* pops nothing, navigates nowhere and adds nothing to the ledger or to    *)
(* the results; its next call is browser.close.                            *)
(***************************************************************************)
VisitingFailed(st) == Len(OfType(st.failed, "visiting")) > 0

C10_Abort ==
    /\ [](\A s \in Sessions :
             VisitingFailed(session[s]) =>
                 /\ session[s].exit \in {"break", "thrown"}
                 /\ session[s].pc \in {"close", "closeCatch", "done"}
                 /\ session[s].pc = "close" =>
                       session[s].browser = "open" /\ session[s].exit = "break"
                 /\ Len(session[s].gotos) < Len(Unseen(session[s].popped)))
    /\ [][\A s \in Sessions :
             /\ VisitingFailed(session'[s]) =>
                   session'[s].gotos = session[s].gotos
             /\ (VisitingFailed(session'[s]) /\ ~VisitingFailed(session[s])) =>
                   session'[s].pc = "close"
             /\ VisitingFailed(session[s]) =>
                   /\ session'[s].visitedUrls = session[s].visitedUrls
                   /\ session'[s].scrapedData = session[s].scrapedData
                   /\ session'[s].popped = session[s].popped
                   /\ session'[s].urlQueue = session[s].urlQueue]_vars

\* A session whose visiting send threw and that ended with its browser
\* closed and Frontier entries left.
C10_Witness ==
    \E s \in Sessions :
        /\ VisitingFailed(session[s])
        /\ session[s].pc = "done"
        /\ session[s].browser = "closed"
        /\ Len(session[s].urlQueue) > 0
        /\ Len(session[s].gotos) > 0

(***************************************************************************)
(* C11. Unrecoverable session error: the exception that ends a session is  *)
(* not propagated: no session that entered the catch block lets an         *)
(* exception leave the handler.                                            *)
(***************************************************************************)
C11_SessionError ==
    \A s \in Sessions : Threw(session[s]) => ~session[s].uncaught

(***************************************************************************)
(* C13. Send failures are never fatal: no failure of ws.send leaves the    *)
(* handler that made the send as an uncaught exception or an unhandled     *)
(* rejection.  Stated for the handler runs in which a send threw and which *)
(* did not enter the catch block (whose browser.close may reject).         *)
(***************************************************************************)
C13_SendContained ==
    \A s \in Sessions :
        (session[s].failed # << >> /\ ~Threw(session[s])) =>
            ~session[s].uncaught

(***************************************************************************)
(* C14. Visiting event per pop.  As claimed: every Frontier pop has        *)
(* exactly one visiting event that carries the popped URL, and every       *)
(* navigation attempt follows a visiting event for the same URL.           *)
(***************************************************************************)
C14_Original ==
    \A s \in Sessions :
        /\ Visiting(session[s].events) = Urls(session[s].popped)
        /\ session[s].gotos = Visiting(session[s].events)

\* C14 as amended: a pop of a URL already in the ledger has no event (and
\* no navigation); a pop of any other URL makes exactly one visiting send
\* that carries the popped URL, and the navigation attempt follows only
\* when that send did not throw.  A session about to navigate has as its
\* latest event the visiting event of the URL it navigates to, which is
\* its latest pop.
C14_VisitingPerPop ==
    /\ [](\A s \in Sessions :
             session[s].pc = "goto" =>
                 LET st == session[s]
                 IN  /\ Len(st.events) > 0 /\ Len(st.gotos) > 0
                     /\ Len(st.popped) > 0
                     /\ st.events[Len(st.events)]
                           = VisitingEvent(st.currentUrl)
                     /\ st.gotos[Len(st.gotos)] = st.currentUrl
                     /\ st.popped[Len(st.popped)]
                           = [url |-> st.currentUrl, seen |-> FALSE])
    /\ [][\A s \in Sessions :
             LET np == Added(session[s].popped, session'[s].popped)
                 nv == Visiting(Added(session[s].events, session'[s].events))
                 nf == Visiting(Added(session[s].failed, session'[s].failed))
                 ng == Added(session[s].gotos, session'[s].gotos)
             IN  /\ nv \o nf = Unseen(np)
                 /\ Len(Unseen(np)) <= 1
                 /\ Len(Unseen(np)) = 1 => ~np[Len(np)].seen
                 /\ ng = nv]_vars

\* A session that popped a URL already in its ledger, without an event,
\* and is now navigating to the URL of its latest visiting event.
C14_Witness ==
    \E s \in Sessions :
        /\ session[s].pc = "goto"
        /\ \E i \in 1..Len(session[s].popped) : session[s].popped[i].seen
        /\ Len(Visiting(session[s].events)) >= 2

(***************************************************************************)
(* C18. Raw-href guard.  The link loop compares the raw href, not the      *)
(* resolved URL, with the ledger: a link whose raw href is in the ledger   *)
(* is skipped; any other link has its resolved URL pushed when that is in  *)
(* scope, also when the resolved URL is already in the ledger or in the    *)
(* Frontier.  Such entries leave the Frontier only by being popped, and    *)
(* those in the ledger are then not navigated to.                          *)
(***************************************************************************)
\* The links of a page that lead to a push, stated on the whole list: the
\* hrefs that are non-empty, are not themselves in the ledger, resolve
\* against the anchor and start with it.
C18_Kept(links, visited, base) ==
    SelectSeq(links,
              LAMBDA l : /\ l # EmptyStr
                         /\ l \notin visited
                         /\ NewURL(l, base).ok
                         /\ StartsWith(NewURL(l, base).href, base))

C18_Expected(links, visited, base) ==
    [i \in 1..Len(C18_Kept(links, visited, base)) |->
        NewURL(C18_Kept(links, visited, base)[i], base).href]

C18_RawHrefGuard ==
    /\ [](\A s \in Sessions :
             /\ \A link \in session[s].visitedUrls :
                   PushedFor(link, session[s].visitedUrls,
                             session[s].baseUrl) = << >>
             /\ Len(session[s].gotos) <= Len(Unseen(session[s].popped)))
    /\ [][\A s \in Sessions :
             Len(session'[s].scrapedData) > Len(session[s].scrapedData) =>
                 \E doc \in Documents :
                     /\ session'[s].scrapedData[Len(session'[s].scrapedData)]
                           = PageRecord(session[s].currentUrl,
                                        Extract(doc.elements))
                     /\ Added(session[s].pushed, session'[s].pushed)
                           = C18_Expected(doc.links, session[s].visitedUrls,
                                          session[s].baseUrl)]_vars

\* One session recorded, as its second page, the page whose links include
\* the raw href of the seed, then in the ledger: that link was skipped and
\* the links to /x and to /page2 were pushed, /page2 although it was
\* already in the Frontier.  Another recorded, as its second page, the page with the
\* link that resolves to the seed: the seed was pushed again although it
\* was in the ledger.
C18_Witness ==
    \E s, t \in Sessions :
        /\ session[s].url = <<HostA, "/">>
        /\ Len(session[s].scrapedData) = 2
        /\ session[s].scrapedData[2].data = Extract(DocOdd.elements)
        /\ session[s].pushed
              = <<<<HostA, "/">>, <<HostA, "/page2">>, <<HostA, "/page2">>,
                  <<HostA, "/x">>, <<HostA, "/page2">>>>
        /\ session[t].url = <<HostA, "/">>
        /\ Len(session[t].scrapedData) = 2
        /\ session[t].scrapedData[2].data = Extract(DocAbroad.elements)
        /\ session[t].pushed[Len(session[t].pushed) - 1] = <<HostA, "/">>
        /\ <<HostA, "/">> \in Range(session[t].urlQueue)
        /\ <<HostA, "/">> \in session[t].visitedUrls

(***************************************************************************)
(* C19. Ledger/result consistency: whenever the loop is at its head (and   *)
(* at every await) the ledger is the set of URLs of the page records,      *)
(* there is one record per member of the ledger, no URL has two records,   *)
(* and the records are in the order of the visits.  The ledger never       *)
(* shrinks, and a URL enters it only in the step that follows a            *)
(* navigation to it that resolved, together with its record.               *)
(***************************************************************************)
C19_LedgerResults ==
    /\ [](\A s \in Sessions :
             LET st == session[s]
             IN  /\ st.visitedUrls = Range(Urls(st.scrapedData))
                 /\ Cardinality(st.visitedUrls) = Len(st.scrapedData)
                 /\ IsSubseq(Urls(st.scrapedData), st.gotos)
                 /\ \A i \in 1..Len(st.navFailed) :
                       st.navFailed[i] \in st.visitedUrls =>
                           \E j \in 1..Len(st.gotos) :
                               /\ st.gotos[j] = st.navFailed[i]
                               /\ \E k \in 1..Len(st.gotos) :
                                     k # j /\ st.gotos[k] = st.gotos[j])
    /\ [][\A s \in Sessions :
             /\ session[s].visitedUrls \subseteq session'[s].visitedUrls
             /\ session'[s].visitedUrls # session[s].visitedUrls =>
                   /\ session[s].pc = "content"
                   /\ session'[s].visitedUrls
                         = session[s].visitedUrls \cup {session[s].currentUrl}
                   /\ session[s].gotos[Len(session[s].gotos)]
                         = session[s].currentUrl
                   /\ Urls(session'[s].scrapedData)
                         = Append(Urls(session[s].scrapedData),
                                  session[s].currentUrl)]_vars

\* A session with two page records, made after a navigation that failed.
C19_Witness ==
    \E s \in Sessions :
        /\ Len(session[s].scrapedData) = 2
        /\ Cardinality(session[s].visitedUrls) = 2
        /\ Len(session[s].navFailed) > 0

(***************************************************************************)
(* C20. At most one terminal event: a session sends at most one of the     *)
(* scrapedData event and the error event, whether or not the send          *)
(* succeeds, and never both; after that send the session takes no step     *)
(* but the return of the browser.close of its catch block.                 *)
(***************************************************************************)
C20_Terminal(st) ==
    OfType(st.events \o st.failed, "scrapedData")
        \o OfType(st.events \o st.failed, "error")

C20_OneTerminalEvent ==
    /\ [](\A s \in Sessions : Len(C20_Terminal(session[s])) <= 1)
    /\ [][\A s \in Sessions :
             (Len(C20_Terminal(session[s])) = 1
                 /\ session'[s] # session[s]) =>
                 /\ session[s].pc = "closeCatch"
                 /\ session'[s].pc = "done"
                 /\ session'[s].events = session[s].events
                 /\ session'[s].failed = session[s].failed
                 /\ session'[s].gotos = session[s].gotos
                 /\ session'[s].popped = session[s].popped
                 /\ session'[s].scrapedData = session[s].scrapedData]_vars

\* One session sent its results and is done; another sent the error event
\* of the catch block and had its browser closed afterwards.
C20_Witness ==
    \E s, t \in Sessions :
        /\ Len(OfType(session[s].events, "scrapedData")) = 1
        /\ session[s].pc = "done"
        /\ Len(session[s].scrapedData) > 0
        /\ Len(OfType(session[t].events, "error")) = 1
        /\ Threw(session[t])
        /\ session[t].pc = "done" /\ session[t].browser = "closed"

(***************************************************************************)
(* C16. Extractor flush rule: for every list of elements, taken without    *)
(* those of empty text, the sections are, in order, the maximal runs of    *)
(* consecutive non-heading elements; the content of a section is its run,  *)
(* its title the text of the heading just before the run ("" when the run  *)
(* starts the list); no section has empty content, a list of headings      *)
(* only gives no section, and a second run gives the same sections.        *)
(***************************************************************************)
C16_WithText(elements) == SelectSeq(elements, LAMBDA e : e.text # "")

\* The places where a run of non-heading elements starts.
C16_RunStarts(e) ==
    { i \in 1..Len(e) :
        ~IsHeading(e[i].tag) /\ (i = 1 \/ IsHeading(e[i - 1].tag)) }

\* The place where the run that starts at i ends.
C16_RunEnd(e, i) ==
    CHOOSE j \in i..Len(e) :
        /\ \A k \in i..j : ~IsHeading(e[k].tag)
        /\ j = Len(e) \/ IsHeading(e[j + 1].tag)

C16_FlushRule ==
    extraction.runs > 0 =>
        LET e   == C16_WithText(extraction.elements)
            out == extraction.pageData
        IN  /\ \A k \in 1..Len(out) : out[k].content # << >>
            /\ Len(out) = Cardinality(C16_RunStarts(e))
            /\ \A k \in 1..Len(out) :
                  \E i \in C16_RunStarts(e) :
                      /\ Cardinality({ h \in C16_RunStarts(e) : h < i })
                            = k - 1
                      /\ out[k].content = SubSeq(e, i, C16_RunEnd(e, i))
                      /\ out[k].title
                            = IF i = 1 THEN "" ELSE e[i - 1].text
            /\ (\A i \in 1..Len(e) : IsHeading(e[i].tag)) => out = << >>
            /\ extraction.same

\* Two runs on a list that starts with text, then has two headings in a
\* row and text again: two sections, the first without title.
C16_Witness ==
    /\ extraction.runs = 2
    /\ extraction.elements
          = <<El("p", "x"), El("h1", "A"), El("h2", "B"), El("li", "y")>>
    /\ Len(extraction.pageData) = 2
    /\ extraction.pageData[1].title = ""
    /\ extraction.pageData[2].title = "B"

(***************************************************************************)
(* C17. Section boundary example.  As claimed: h1 "A", p "x", h2 "B"       *)
(* gives exactly two sections, one of them titled "A" with the content     *)
(* (p, x), and none titled "B".                                            *)
(***************************************************************************)
C17_Elements == <<El("h1", "A"), El("p", "x"), El("h2", "B")>>

C17_Example == extraction.elements = C17_Elements /\ extraction.runs > 0

C17_Original ==
    C17_Example =>
        /\ Len(extraction.pageData) = 2
        /\ Section("A", <<El("p", "x")>>) \in Range(extraction.pageData)
        /\ \A k \in 1..Len(extraction.pageData) :
              extraction.pageData[k].title # "B"

\* C17 as amended: the example gives exactly one section, titled "A" with
\* the content (p, x); the heading "B", which no text follows, gives none.
C17_Boundary ==
    C17_Example =>
        extraction.pageData = <<Section("A", <<El("p", "x")>>)>>

C17_Witness ==
    /\ C17_Example
    /\ Len(extraction.pageData) = 1

(***************************************************************************)
(* C15. Keepalive liveness bound.  As claimed: at a tick a channel whose   *)
(* flag is false is terminated, any other has its flag set to false and a  *)
(* ping sent; a pong sets the flag; so the channels the keepalive          *)
(* terminates are those that left a ping without answer until the next    *)
(* tick.                                                                   *)
(***************************************************************************)
C15_IsTick == wss'.ticks = wss.ticks + 1

C15_Original ==
    \A w \in Channels :
        ws[w].status = "terminated" => ws[w].pinged /\ ~ws[w].answered

\* C15 as amended: at a tick a channel whose flag is false is terminated;
\* any other has its flag set to false and a ping sent, or, when ws.ping
\* throws, is terminated at once.  A pong sets the flag.  So a channel
\* that left a ping without answer is terminated at the next tick, and a
\* channel that answers every ping before the following tick is
\* terminated by the keepalive only when a ping to it throws.
C15_Keepalive ==
    /\ [](\A w \in Channels :
             /\ ws[w].status = "terminated" =>
                   \/ ws[w].endedBy = "dead"
                         /\ ws[w].pinged /\ ~ws[w].answered
                   \/ ws[w].endedBy = "pingThrew"
             /\ (ws[w].status = "open" /\ ws[w].answered) => ws[w].isAlive)
    /\ [][\A w \in Channels :
             /\ (C15_IsTick /\ ws[w].status = "open") =>
                   /\ ~ws[w].isAlive =>
                         /\ ws'[w].status = "terminated"
                         /\ ws'[w].endedBy = "dead"
                   /\ ws[w].isAlive =>
                         /\ ~ws'[w].isAlive
                         /\ \/ ws'[w].status = "open" /\ ws'[w].pinged
                            \/ /\ ws'[w].status = "terminated"
                               /\ ws'[w].endedBy = "pingThrew"
                   /\ (ws[w].pinged /\ ~ws[w].answered) =>
                         ws'[w].status = "terminated"
                   /\ (~ws[w].pinged \/ ws[w].answered) =>
                         ws'[w].endedBy # "dead"
             /\ (~C15_IsTick /\ ws[w].status = "open") =>
                   /\ ws'[w].status = "open"
                   /\ ws'[w].isAlive # ws[w].isAlive => ws'[w].isAlive
                   /\ ws'[w].answered # ws[w].answered => ws'[w].isAlive
                   /\ ws'[w].pinged = ws[w].pinged
             /\ (ws[w].status = "open" /\ ws'[w].status = "terminated") =>
                   C15_IsTick]_vars

\* After two ticks one channel is terminated because it left the ping of
\* the first tick without answer, and another, which answered, is open
\* and was pinged again; a handler run of the terminated channel, which
\* sent events on it, is still going on.
C15_Witness ==
    \E v, w \in Channels :
        /\ wss.ticks = 2
        /\ ws[v].status = "terminated" /\ ws[v].endedBy = "dead"
        /\ ws[w].status = "open" /\ ws[w].pinged /\ ~ws[w].isAlive
        /\ \E s \in ws[v].runs :
              /\ session[s].pc \notin {"idle", "done"}
              /\ session[s].events # << >>

(***************************************************************************)
(* C12. Session independence: every handler run has its own Frontier,      *)
(* ledger, results and browser.  A step changes the state of one run       *)
(* only, the one whose await returned, so that no run navigates or closes  *)
(* the browser of another; and on every connection the events of each of   *)
(* its runs appear in the order in which that run sent them, whatever the  *)
(* interleaving with the events of other runs.                             *)
(***************************************************************************)
\* The events of run s among what was sent on a connection, in order.
C12_From(sent, s) ==
    LET own == SelectSeq(sent, LAMBDA m : m.from = s)
    IN  [i \in 1..Len(own) |-> own[i].event]

C12_Independence ==
    /\ [](\A s \in Sessions :
             /\ \A v, w \in Channels :
                   (s \in ws[v].runs /\ s \in ws[w].runs) => v = w
             /\ \A w \in Channels :
                   C12_From(ws[w].sent, s)
                      = IF s \in ws[w].runs THEN session[s].events
                        ELSE << >>)
    /\ [][\A s \in Sessions :
             session'[s] # session[s] =>
                 /\ \A t \in Sessions \ {s} : session'[t] = session[t]
                 /\ session'[s] \in NextStates(session[s], Messages,
                                               ChannelDocuments, BOOLEAN)]_vars

\* Two runs of one connection, both past their second visiting event:
\* the connection carries an event of one run between two of the other.
C12_Witness ==
    \E s, t \in Sessions, w \in Channels :
        /\ s # t /\ {s, t} \subseteq ws[w].runs
        /\ Len(session[s].scrapedData) > 0
        /\ Len(session[t].scrapedData) > 0
        /\ \E i, j, k \in 1..Len(ws[w].sent) :
              /\ i < j /\ j < k
              /\ ws[w].sent[i].from = s
              /\ ws[w].sent[j].from = t
              /\ ws[w].sent[k].from = s

(***************************************************************************)
(* C21. No use after release: a session passes no URL to page.goto and     *)
(* reads no content once its browser is closed; it calls browser.close     *)
(* only when its loop has ended (by its condition, by the break or by an   *)
(* exception); and it sends the scrapedData event only when the            *)
(* browser.close of line 161 has resolved.                                 *)
(***************************************************************************)
C21_NoUseAfterRelease ==
    /\ [](\A s \in Sessions :
             LET st == session[s]
             IN  /\ st.pc \in {"goto", "content"} =>
                       st.browser = "open" /\ st.exit = "none"
                 /\ st.pc \in {"close", "closeCatch"} =>
                       st.browser = "open" /\ st.exit # "none"
                 /\ st.browser = "closed" =>
                       st.pc = "done" /\ st.exit # "none"
                 /\ OfType(st.events \o st.failed, "scrapedData") # << >> =>
                       st.browser = "closed" /\ st.exit \in {"ended", "break"})
    /\ [][\A s \in Sessions :
             /\ session[s].browser = "closed" =>
                   /\ session'[s].gotos = session[s].gotos
                   /\ session'[s].scrapedData = session[s].scrapedData
                   /\ session'[s].popped = session[s].popped
                   /\ session'[s].browser = "closed"
             /\ session'[s].gotos # session[s].gotos =>
                   session[s].browser = "open" /\ session'[s].browser = "open"
             /\ Len(session'[s].scrapedData) > Len(session[s].scrapedData) =>
                   session[s].browser = "open" /\ session[s].pc = "content"
             /\ (session[s].browser = "open"
                    /\ session'[s].browser = "closed") =>
                   /\ session[s].pc \in {"close", "closeCatch"}
                   /\ session[s].exit # "none"
                   /\ session'[s].gotos = session[s].gotos
             /\ OfType(session'[s].events \o session'[s].failed,
                       "scrapedData")
                   # OfType(session[s].events \o session[s].failed,
                            "scrapedData") =>
                   /\ session[s].pc = "close"
                   /\ session'[s].browser = "closed"]_vars

\* A session that navigated, read two pages, ended its loop, had its
\* browser closed and then sent its results.
C21_Witness ==
    \E s \in Sessions :
        /\ session[s].browser = "closed"
        /\ session[s].exit = "ended"
        /\ Len(session[s].gotos) >= 2
        /\ Len(session[s].scrapedData) = 2
        /\ session[s].events[Len(session[s].events)]
              = ScrapedEvent(session[s].scrapedData)

====
